---- MODULE Spec2Model ----
(***************************************************************************)
(* Model of immi's layout core (src/src/layout.rs): the per-frame session  *)
(* state (Shared1), the per-root backend/hover state (Shared2), and the    *)
(* tree of DrawContext values built by the composition operations.         *)
(*                                                                         *)
(* Numbers.  The code computes in f32.  The model computes in exact        *)
(* rational arithmetic (a rational is a normalised pair <<num, den>>,      *)
(* den > 0); rounding is not modelled, so every equality between sizes or  *)
(* coordinates below is an equality of the real values the f32 results     *)
(* approximate.  Inputs that make the layout divide by zero (a split whose *)
(* weights sum to 0, a surface of height 0) are not drawn; the quotient    *)
(* 0/0 of Linear::calculate is the value NaN.                              *)
(***************************************************************************)
EXTENDS Integers, Sequences, FiniteSets, TLC

(***************************************************************************)
(* Bounds of the model.                                                    *)
(***************************************************************************)
MaxNodes == 3
MaxIds == 2
MaxSplits == 2
MaxSplitNodes == 4
MaxLayoutNodes == 2
MaxTime == 4
MaxCallers == 2
MaxWeight == 3

(***************************************************************************)
(* Rational arithmetic.                                                    *)
(***************************************************************************)
Abs(i) == IF i < 0 THEN -i ELSE i

RECURSIVE GCD(_, _)
GCD(a, b) == IF b = 0 THEN a ELSE GCD(b, a % b)

Rat(n, d) ==
    LET g == GCD(Abs(n), Abs(d))
        s == IF d < 0 THEN -1 ELSE 1
    IN  <<(s * n) \div g, (s * d) \div g>>

Zero == <<0, 1>>
One == <<1, 1>>
Two == <<2, 1>>
Half == <<1, 2>>

\* The sum and the product cancel common factors before they multiply, which
\* keeps the intermediate integers small.
RAdd(a, b) ==
    LET g == GCD(a[2], b[2])
    IN  Rat(a[1] * (b[2] \div g) + b[1] * (a[2] \div g), (a[2] \div g) * b[2])

RMul(a, b) ==
    LET g1 == GCD(Abs(a[1]), b[2])
        g2 == GCD(Abs(b[1]), a[2])
    IN  <<(a[1] \div g1) * (b[1] \div g2), (a[2] \div g2) * (b[2] \div g1)>>

RSub(a, b) == RAdd(a, <<-b[1], b[2]>>)

\* a / b, for b /= 0
RDiv(a, b) == RMul(a, IF b[1] < 0 THEN <<-b[2], -b[1]>> ELSE <<b[2], b[1]>>)

RNeg(a) == <<-a[1], a[2]>>
RLt(a, b) == RSub(a, b)[1] < 0
RLe(a, b) == RSub(a, b)[1] <= 0

(***************************************************************************)
(* Option<T>: None is the empty sequence, Some(v) the sequence <<v>>.      *)
(***************************************************************************)
None == <<>>
Some(v) == <<v>>

(***************************************************************************)
(* Matrix: 3x3, stored by columns, m[col][row] (layout.rs reads the        *)
(* translation of the inverse as m[2][0], m[2][1] with 0-based indices).   *)
(* Here indices are 1-based.  The constructors and the product are not in  *)
(* the source files; they follow section 4.1 of the specification.         *)
(***************************************************************************)
identity == <<<<One, Zero, Zero>>, <<Zero, One, Zero>>, <<Zero, Zero, One>>>>

translate(x, y) == <<<<One, Zero, Zero>>, <<Zero, One, Zero>>, <<x, y, One>>>>

scale_wh(sx, sy) == <<<<sx, Zero, Zero>>, <<Zero, sy, Zero>>, <<Zero, Zero, One>>>>

scale(s) == scale_wh(s, s)

\* Row r of matrix * [x, y, w].
MatRow(m, v, r) ==
    RAdd(RAdd(RMul(m[1][r], v[1]), RMul(m[2][r], v[2])), RMul(m[3][r], v[3]))

\* matrix * [x, y, w]
MatApply(m, v) == <<MatRow(m, v, 1), MatRow(m, v, 2), MatRow(m, v, 3)>>

\* a * b: column c of the product is a applied to column c of b, so applying
\* a * b applies b, then a.
MatMul(a, b) == <<MatApply(a, b[1]), MatApply(a, b[2]), MatApply(a, b[3])>>

\* The entry of row r, column c.
MatAt(m, r, c) == m[c][r]

\* The two indices other than k, in increasing order.
Others(k) == IF k = 1 THEN <<2, 3>> ELSE IF k = 2 THEN <<1, 3>> ELSE <<1, 2>>

\* The cofactor of the entry of row r, column c.
Cofactor(m, r, c) ==
    LET rs == Others(r)
        cs == Others(c)
        minor == RSub(RMul(MatAt(m, rs[1], cs[1]), MatAt(m, rs[2], cs[2])),
                      RMul(MatAt(m, rs[1], cs[2]), MatAt(m, rs[2], cs[1])))
    IN  IF (r + c) % 2 = 0 THEN minor ELSE RNeg(minor)

Det(m) ==
    RAdd(RAdd(RMul(MatAt(m, 1, 1), Cofactor(m, 1, 1)),
              RMul(MatAt(m, 1, 2), Cofactor(m, 1, 2))),
         RMul(MatAt(m, 1, 3), Cofactor(m, 1, 3)))

\* Matrix::invert: None for a singular matrix, else the adjugate over the
\* determinant (entry (r, c) of the inverse is the cofactor of (c, r)).
InverseColumn(m, c) ==
    <<RDiv(Cofactor(m, c, 1), Det(m)), RDiv(Cofactor(m, c, 2), Det(m)),
      RDiv(Cofactor(m, c, 3), Det(m))>>

invert(m) ==
    IF Det(m) = Zero THEN None
    ELSE Some(<<InverseColumn(m, 1), InverseColumn(m, 2), InverseColumn(m, 3)>>)

(***************************************************************************)
(* Alignment.                                                              *)
(***************************************************************************)
HorizontalAlignment == {"Center", "Left", "Right"}
VerticalAlignment == {"Center", "Top", "Bottom"}
Alignment == [horizontal : HorizontalAlignment, vertical : VerticalAlignment]

center == [horizontal |-> "Center", vertical |-> "Center"]
top_left == [horizontal |-> "Left", vertical |-> "Top"]
bottom_right == [horizontal |-> "Right", vertical |-> "Bottom"]

(***************************************************************************)
(* State.                                                                  *)
(*   ui_state   the caller's UiState (outlives every session)              *)
(*   shared1    the session's Shared1: id names the allocation (the Arc),  *)
(*              next_widget_id and cursor_hovered_widget are its atomics;  *)
(*              its ui_state field is the reference to ui_state            *)
(*   shared2    the Shared2 allocations of the session, one per root, in   *)
(*              order of creation (the backend reference is opaque)        *)
(*   nodes      the DrawContext values alive in the session, in order of   *)
(*              creation; shared1 / shared2 hold the allocation referred to*)
(*   parent     history: the node each node was derived from (0: a root)   *)
(*   reserved   history: the ids reserve_widget_id returned in the session *)
(*   last_active history: what the last write_active_widget (Some(id)) or  *)
(*              clear_active_widget (None) call asked for; None at first   *)
(*   ret        the last call and what it returned                         *)
(*   panicked   a call panicked (assert! failed)                           *)
(*   hover_calls per calling thread, the set_cursor_hovered_widget call it *)
(*              is in, if any: the node, and the store still to be done    *)
(***************************************************************************)
VARIABLES ui_state, shared1, shared2, nodes, parent, reserved, last_active, ret,
          panicked, hover_calls

vars == <<ui_state, shared1, shared2, nodes, parent, reserved, last_active, ret,
          panicked, hover_calls>>

\* The threads that may call into the session at the same time.
Callers == 1..MaxCallers

Nodes == 1..Len(nodes)

(***************************************************************************)
(* Constructing a session and its roots.                                   *)
(***************************************************************************)
\* A draw that would carry the previous session's hover flag into the new one.
draw_KeepsHoverFlag(old) ==
    [id |-> 1 - old.id, next_widget_id |-> 1,
     cursor_hovered_widget |-> old.cursor_hovered_widget]

\* A draw that would carry the previous session's id counter into the new one.
draw_KeepsCounter(old) ==
    [id |-> 1 - old.id, next_widget_id |-> old.next_widget_id,
     cursor_hovered_widget |-> FALSE]

\* fn draw(ui_state): a fresh Shared1. The allocation is named by id; the two
\* ids alternate, since a session must be dropped before ui_state is borrowed again.
draw(old) ==
    [id |-> 1 - old.id, next_widget_id |-> 1, cursor_hovered_widget |-> FALSE]

\* SharedDrawContext::draw's Shared2: the backend reference is opaque.
NewShared2 == [cursor_hovered_widget |-> FALSE]

\* SharedDrawContext::draw: a root node over a fresh Shared2, to be stored at s2.
SharedDrawContext_draw(s1, s2, width, height, cursor, cursor_was_pressed, cursor_was_released) ==
    [matrix |-> identity,
     width |-> width,
     height |-> height,
     cursor |-> cursor,
     cursor_was_pressed |-> cursor_was_pressed,
     cursor_was_released |-> cursor_was_released,
     shared1 |-> s1.id,
     shared2 |-> s2]

\* SharedDrawContext::cursor_hovered_widget
SharedDrawContext_cursor_hovered_widget == shared1.cursor_hovered_widget

(***************************************************************************)
(* DrawContext: accessors.                                                 *)
(***************************************************************************)
cursor_was_pressed(self) == self.cursor_was_pressed

cursor_was_released(self) == self.cursor_was_released

\* DrawContext::cursor_hovered_widget: loads the flag of the node's Shared2.
cursor_hovered_widget(self) == shared2[self.shared2].cursor_hovered_widget

\* DrawContext::get_active_widget: reads the caller's UiState under the lock.
get_active_widget(self) == ui_state.active_widget

\* is_cursor_hovering's test: the dot product of point - corner with
\* next_corner - corner.
HoverDot(point, corner, next_corner) ==
    RAdd(RMul(RSub(point[1], corner[1]), RSub(next_corner[1], corner[1])),
         RMul(RSub(point[2], corner[2]), RSub(next_corner[2], corner[2])))

\* matrix * [x, y, 1], divided by its third component.
HoverCorner(matrix, x, y) ==
    LET v == MatApply(matrix, <<x, y, One>>)
    IN  <<RDiv(v[1], v[3]), RDiv(v[2], v[3])>>

test(matrix, point) ==
    LET top_left_corner == HoverCorner(matrix, <<-1, 1>>, One)
        top_right_corner == HoverCorner(matrix, One, One)
        bot_left_corner == HoverCorner(matrix, <<-1, 1>>, <<-1, 1>>)
        bot_right_corner == HoverCorner(matrix, One, <<-1, 1>>)
    IN  IF RLt(HoverDot(point, top_left_corner, top_right_corner), Zero) THEN FALSE
        ELSE IF RLt(HoverDot(point, top_right_corner, bot_right_corner), Zero) THEN FALSE
        ELSE IF RLt(HoverDot(point, bot_right_corner, bot_left_corner), Zero) THEN FALSE
        ELSE IF RLt(HoverDot(point, bot_left_corner, top_left_corner), Zero) THEN FALSE
        ELSE TRUE

is_cursor_hovering(self) ==
    IF self.cursor # None THEN test(self.matrix, self.cursor[1]) ELSE FALSE

\* A range test without the two upper limits.
OutOfRange_LowerOnly(output_mouse) ==
    RLt(output_mouse[1], <<-1, 1>>) \/ RLt(output_mouse[2], <<-1, 1>>)

\* The range test of cursor_hover_coordinates (a rational is never NaN).
OutOfRange(output_mouse) ==
    \/ RLt(output_mouse[1], <<-1, 1>>) \/ RLt(One, output_mouse[1])
    \/ RLt(output_mouse[2], <<-1, 1>>) \/ RLt(One, output_mouse[2])

\* cursor_hover_coordinates.  A third component of 0 makes the f32 quotients
\* infinite or NaN, which the range test rejects.
cursor_hover_coordinates(self) ==
    IF invert(self.matrix) = None THEN None
    ELSE IF self.cursor = None THEN None
    ELSE LET m == invert(self.matrix)[1]
             in_pos == self.cursor[1]
             out(r) == RAdd(RAdd(RMul(in_pos[1], m[1][r]), RMul(in_pos[2], m[2][r])),
                            m[3][r])
         IN  IF out(3) = Zero THEN None
             ELSE LET output_mouse == <<RDiv(out(1), out(3)), RDiv(out(2), out(3))>>
                  IN  IF OutOfRange(output_mouse) THEN None
                      ELSE Some(output_mouse)

width_per_height(self) == RDiv(self.width, self.height)

(***************************************************************************)
(* DrawContext: the stores of the session operations.                      *)
(***************************************************************************)
\* A set_cursor_hovered_widget without its first store.
StoreShared1Hover_Omitted(s1) == s1

\* set_cursor_hovered_widget, first store: the session-wide flag.
StoreShared1Hover(s1) == [s1 EXCEPT !.cursor_hovered_widget = TRUE]

\* A set_cursor_hovered_widget without its second store.
StoreShared2Hover_Omitted(s2, self) == s2

\* A second store that would reach the Shared2 of every root.
StoreShared2Hover_EveryRoot(s2, self) ==
    [k \in DOMAIN s2 |-> [s2[k] EXCEPT !.cursor_hovered_widget = TRUE]]

\* set_cursor_hovered_widget, second store: the flag of the node's Shared2.
StoreShared2Hover(s2, self) == [s2 EXCEPT ![self.shared2].cursor_hovered_widget = TRUE]

\* A load in place of the fetch_add: the counter stays.
FetchAddNextWidgetId_LoadOnly(s1) == s1

\* reserve_widget_id: fetch_add(1) returns the value before the increment.
FetchAddNextWidgetId(s1) == [s1 EXCEPT !.next_widget_id = s1.next_widget_id + 1]

\* what fetch_add returns: the value before the increment.
FetchAddResult(s1) == s1.next_widget_id

\* A write that would keep an id already held.
WriteActive_KeepsHeld(u, id) ==
    IF u.active_widget = None THEN [u EXCEPT !.active_widget = Some(id)] ELSE u

\* write_active_widget
WriteActive(u, id) == [u EXCEPT !.active_widget = Some(id)]

\* clear_active_widget
ClearActive(u) == [u EXCEPT !.active_widget = None]

(***************************************************************************)
(* DrawContext: composition.  Each operation builds a new value from self. *)
(***************************************************************************)
rescale(self, width_percent, height_percent, alignment) ==
    LET x == CASE alignment.horizontal = "Center" -> Zero
               [] alignment.horizontal = "Left" -> RSub(width_percent, One)
               [] alignment.horizontal = "Right" -> RSub(One, width_percent)
        y == CASE alignment.vertical = "Center" -> Zero
               [] alignment.vertical = "Bottom" -> RSub(height_percent, One)
               [] alignment.vertical = "Top" -> RSub(One, height_percent)
    IN  [matrix |-> MatMul(MatMul(self.matrix, translate(x, y)),
                           scale_wh(width_percent, height_percent)),
         width |-> RMul(self.width, width_percent),
         height |-> RMul(self.height, height_percent),
         shared1 |-> self.shared1,
         shared2 |-> self.shared2,
         cursor |-> self.cursor,
         cursor_was_pressed |-> self.cursor_was_pressed,
         cursor_was_released |-> self.cursor_was_released]

vertical_rescale(self, s, alignment) ==
    LET y == CASE alignment = "Center" -> Zero
               [] alignment = "Bottom" -> RSub(s, One)
               [] alignment = "Top" -> RSub(One, s)
    IN  [matrix |-> MatMul(MatMul(self.matrix, translate(Zero, y)), scale_wh(One, s)),
         width |-> self.width,
         height |-> RMul(self.height, s),
         shared1 |-> self.shared1,
         shared2 |-> self.shared2,
         cursor |-> self.cursor,
         cursor_was_pressed |-> self.cursor_was_pressed,
         cursor_was_released |-> self.cursor_was_released]

horizontal_rescale(self, s, alignment) ==
    LET x == CASE alignment = "Center" -> Zero
               [] alignment = "Left" -> RSub(s, One)
               [] alignment = "Right" -> RSub(One, s)
    IN  [matrix |-> MatMul(MatMul(self.matrix, translate(x, Zero)), scale_wh(s, One)),
         width |-> RMul(self.width, s),
         height |-> self.height,
         shared1 |-> self.shared1,
         shared2 |-> self.shared2,
         cursor |-> self.cursor,
         cursor_was_pressed |-> self.cursor_was_pressed,
         cursor_was_released |-> self.cursor_was_released]

margin(self, top, right, bottom, left) ==
    rescale(rescale(self, RSub(One, left), RSub(One, top), bottom_right),
            RSub(One, right), RSub(One, bottom), top_left)

\* A uniform_margin with the two divisors exchanged.
uniform_margin_Exchanged(self, top, right, bottom, left) ==
    LET wph0 == width_per_height(self)
        wph == IF RLt(wph0, One) THEN One ELSE wph0
        hpw0 == RDiv(One, width_per_height(self))
        hpw == IF RLt(hpw0, One) THEN One ELSE hpw0
    IN  margin(self, RDiv(top, wph), RDiv(right, hpw), RDiv(bottom, wph),
               RDiv(left, hpw))

uniform_margin(self, top, right, bottom, left) ==
    LET wph0 == width_per_height(self)
        wph == IF RLt(wph0, One) THEN One ELSE wph0
        hpw0 == RDiv(One, width_per_height(self))
        hpw == IF RLt(hpw0, One) THEN One ELSE hpw0
    IN  margin(self, RDiv(top, hpw), RDiv(right, wph), RDiv(bottom, hpw),
               RDiv(left, wph))

\* A downscale with the comparison of the two ratios the other way round.
enforce_aspect_ratio_downscale_Flipped(self, wph, alignment) ==
    LET current_width_per_height == width_per_height(self)
    IN  IF RLt(wph, current_width_per_height)
        THEN vertical_rescale(self, RDiv(current_width_per_height, wph),
                              alignment.vertical)
        ELSE horizontal_rescale(self, RDiv(wph, current_width_per_height),
                                alignment.horizontal)

enforce_aspect_ratio_downscale(self, wph, alignment) ==
    LET current_width_per_height == width_per_height(self)
    IN  IF RLt(current_width_per_height, wph)
        THEN vertical_rescale(self, RDiv(current_width_per_height, wph),
                              alignment.vertical)
        ELSE horizontal_rescale(self, RDiv(wph, current_width_per_height),
                                alignment.horizontal)

enforce_aspect_ratio_upscale(self, wph, alignment) ==
    LET current_width_per_height == width_per_height(self)
    IN  IF RLt(current_width_per_height, wph)
        THEN horizontal_rescale(self, RDiv(wph, current_width_per_height),
                                alignment.horizontal)
        ELSE vertical_rescale(self, RDiv(current_width_per_height, wph),
                              alignment.vertical)

\* weights.clone().fold(0.0, |a, b| a + b)
RECURSIVE total_weight(_)
total_weight(weights) ==
    IF Len(weights) = 0 THEN Zero
    ELSE RAdd(total_weight(SubSeq(weights, 1, Len(weights) - 1)),
              weights[Len(weights)])

\* current_offset when the closure runs for chunk i: the weights before it.
current_offset(weights, i) == total_weight(SubSeq(weights, 1, i - 1))

\* An inverse of the number of weights, in place of their sum.
total_weight_inverse_OfCount(weights) == Rat(1, Len(weights))

total_weight_inverse(weights) == RDiv(One, total_weight(weights))

\* A translation to the chunk's near edge, in place of its middle.
split_pos_NearEdge(weights, i, vertical) ==
    LET inv == total_weight_inverse(weights)
        near == current_offset(weights, i)
    IN  IF vertical
        THEN RSub(One, RMul(RMul(Two, near), inv))
        ELSE RSub(RMul(RMul(Two, near), inv), One)

\* The translation of chunk i along the split axis, in the parent's space.
split_pos(weights, i, vertical) ==
    LET inv == total_weight_inverse(weights)
        mid == RAdd(current_offset(weights, i), RMul(weights[i], Half))
    IN  IF vertical
        THEN RSub(One, RMul(RMul(Two, mid), inv))
        ELSE RSub(RMul(RMul(Two, mid), inv), One)

\* The share of chunk i: weight * total_weight_inverse.
split_scale(weights, i) == RMul(weights[i], total_weight_inverse(weights))

\* split_weights without its assertion.
split_weights_panics_Never(weights) == FALSE

\* assert!(weights.len() != 0)
split_weights_panics(weights) == Len(weights) = 0

\* The chunks split_weights collects when the assertion holds.
split_weights(self, weights, vertical) ==
    [i \in 1..Len(weights) |->
        LET scale_matrix == IF vertical
                            THEN scale_wh(One, split_scale(weights, i))
                            ELSE scale_wh(split_scale(weights, i), One)
            pos_matrix == IF vertical
                          THEN translate(Zero, split_pos(weights, i, vertical))
                          ELSE translate(split_pos(weights, i, vertical), Zero)
        IN  [matrix |-> MatMul(MatMul(self.matrix, pos_matrix), scale_matrix),
             width |-> IF ~vertical
                       THEN RMul(RMul(self.width, weights[i]),
                                 total_weight_inverse(weights))
                       ELSE self.width,
             height |-> IF vertical
                        THEN RMul(RMul(self.height, weights[i]),
                                  total_weight_inverse(weights))
                        ELSE self.height,
             shared1 |-> self.shared1,
             shared2 |-> self.shared2,
             cursor |-> self.cursor,
             cursor_was_pressed |-> self.cursor_was_pressed,
             cursor_was_released |-> self.cursor_was_released]]

\* (0 .. splits).map(gen): splits weights of 1.0
equal_weights(splits) == [i \in 1..splits |-> One]

(***************************************************************************)
(* Interpolation and animation (src/src/animations/mod.rs).  Times are     *)
(* whole numbers of time units.                                            *)
(***************************************************************************)
\* The f64 quotient 0.0 / 0.0.
NaN == <<0, 0>>

\* Linear::calculate.  elapsed is 0 when now is before start (unwrap_or).  With
\* a duration of 0 the quotient is 0/0 = NaN when elapsed is 0, which fails
\* both comparisons and is returned, and +infinity otherwise, which is >= 1.0.
Linear_calculate(now, start, duration) ==
    LET elapsed == IF now >= start THEN now - start ELSE 0
    IN  IF duration = 0
        THEN IF elapsed = 0 THEN NaN ELSE One
        ELSE LET anim_progress == Rat(elapsed, duration)
             IN  IF RLe(One, anim_progress) THEN One
                 ELSE IF RLe(anim_progress, Zero) THEN Zero
                 ELSE anim_progress

\* Translation::animate
Translation_animate(initial_offset, percent) ==
    translate(RMul(RSub(One, percent), initial_offset[1]),
              RMul(RSub(One, percent), initial_offset[2]))

\* Zoom::animate
Zoom_animate(initial_zoom, percent) ==
    scale(RAdd(RMul(RSub(One, percent), RSub(initial_zoom, One)), One))

\* An animate that would not copy the pressed flag.
animate_DropsPressed(self, matrix) ==
    [matrix |-> MatMul(self.matrix, matrix),
     width |-> self.width,
     height |-> self.height,
     shared1 |-> self.shared1,
     shared2 |-> self.shared2,
     cursor |-> self.cursor,
     cursor_was_pressed |-> FALSE,
     cursor_was_released |-> self.cursor_was_released]

\* DrawContext::animate, given the matrix animation.animate(interpolation) returned.
animate(self, matrix) ==
    [matrix |-> MatMul(self.matrix, matrix),
     width |-> self.width,
     height |-> self.height,
     shared1 |-> self.shared1,
     shared2 |-> self.shared2,
     cursor |-> self.cursor,
     cursor_was_pressed |-> self.cursor_was_pressed,
     cursor_was_released |-> self.cursor_was_released]

\* impl Clone for DrawContext
clone(self) ==
    [matrix |-> self.matrix,
     width |-> self.width,
     height |-> self.height,
     shared1 |-> self.shared1,
     shared2 |-> self.shared2,
     cursor |-> self.cursor,
     cursor_was_pressed |-> self.cursor_was_pressed,
     cursor_was_released |-> self.cursor_was_released]

(***************************************************************************)
(* Inputs.  An input record gives the sets an operation's arguments are    *)
(* drawn from.                                                             *)
(***************************************************************************)
Quarter == <<1, 4>>
Three == <<3, 1>>

\* (width, height, cursor, cursor_was_pressed, cursor_was_released) of a root
RootInputs ==
    {<<Two, One, Some(<<Zero, Zero>>), TRUE, FALSE>>,
     <<One, Two, None, FALSE, TRUE>>}

\* Square roots: nested uniform margins of them stay within TLC's integers.
SquareRootInputs ==
    {<<One, One, Some(<<Zero, Zero>>), TRUE, FALSE>>,
     <<One, One, None, FALSE, TRUE>>}

WeightValues == {<<w, 1>> : w \in 1..MaxWeight}
WeightSeqs == UNION {[1..k -> WeightValues] : k \in 0..MaxSplits}

\* now, for an animation that starts at 1 and lasts 2: before, halfway, after
Times == {0, 2, 3}
AnimationMatrices ==
    {Translation_animate(<<One, Zero>>, Linear_calculate(now, 1, 2)) : now \in Times}
    \cup {Zoom_animate(Two, Linear_calculate(now, 1, 2)) : now \in Times}

AllInputs ==
    [max_nodes |-> MaxNodes,
     splits |-> 0..MaxSplits,
     roots |-> RootInputs,
     percents |-> {Half, One},
     alignments |-> Alignment,
     margins |-> {Zero, Quarter},
     ratios |-> {Half, One, Two},
     weights |-> WeightSeqs,
     matrices |-> AnimationMatrices]

(***************************************************************************)
(* Actions.                                                                *)
(***************************************************************************)
Call(op, self, args, val) == [op |-> op, self |-> self, args |-> args, val |-> val]

Init ==
    /\ ui_state = [active_widget |-> None]
    /\ shared1 = [id |-> 0, next_widget_id |-> 1, cursor_hovered_widget |-> FALSE]
    /\ shared2 = <<>>
    /\ nodes = <<>>
    /\ parent = <<>>
    /\ reserved = <<>>
    /\ last_active = None
    /\ ret = Call("draw", 0, <<>>, <<>>)
    /\ panicked = FALSE
    /\ hover_calls = [t \in Callers |-> None]

\* draw(ui_state): the next frame. The previous session and its nodes are gone
\* (no call through them can be running: draw borrows ui_state exclusively).
Draw ==
    /\ ~panicked
    /\ \A t \in Callers : hover_calls[t] = None
    /\ shared1' = draw(shared1)
    /\ shared2' = <<>>
    /\ nodes' = <<>>
    /\ parent' = <<>>
    /\ reserved' = <<>>
    /\ ret' = Call("draw", 0, <<>>, <<>>)
    /\ UNCHANGED <<ui_state, last_active, panicked, hover_calls>>

\* There is room for k more nodes.
Room(I, k) == ~panicked /\ Len(nodes) + k <= I.max_nodes

\* SharedDrawContext::draw: a new root with its own Shared2.
SharedDraw(I) ==
    /\ Room(I, 1)
    /\ \E in \in I.roots :
        /\ shared2' = Append(shared2, NewShared2)
        /\ nodes' = Append(nodes, SharedDrawContext_draw(shared1, Len(shared2) + 1,
                                      in[1], in[2], in[3], in[4], in[5]))
        /\ parent' = Append(parent, 0)
        /\ ret' = Call("SharedDrawContext::draw", 0, in, <<Len(nodes) + 1>>)
        /\ UNCHANGED <<ui_state, shared1, reserved, last_active, panicked, hover_calls>>

\* A composition operation called on node n returned the values new.
Derive(op, n, args, new) ==
    /\ nodes' = nodes \o new
    /\ parent' = parent \o [i \in 1..Len(new) |-> n]
    /\ ret' = Call(op, n, args, [i \in 1..Len(new) |-> Len(nodes) + i])
    /\ UNCHANGED <<ui_state, shared1, shared2, reserved, last_active, panicked, hover_calls>>

\* The call panicked: nothing was built.
Panic(op, n, args) ==
    /\ panicked' = TRUE
    /\ ret' = Call(op, n, args, <<>>)
    /\ UNCHANGED <<ui_state, shared1, shared2, nodes, parent, reserved, last_active, hover_calls>>

Rescale(I) ==
    /\ Room(I, 1)
    /\ \E n \in Nodes, wp \in I.percents, hp \in I.percents, al \in I.alignments :
        Derive("rescale", n, <<wp, hp, al>>, <<rescale(nodes[n], wp, hp, al)>>)

VerticalRescale(I) ==
    /\ Room(I, 1)
    /\ \E n \in Nodes, s \in I.percents, al \in I.alignments :
        Derive("vertical_rescale", n, <<s, al.vertical>>,
               <<vertical_rescale(nodes[n], s, al.vertical)>>)

HorizontalRescale(I) ==
    /\ Room(I, 1)
    /\ \E n \in Nodes, s \in I.percents, al \in I.alignments :
        Derive("horizontal_rescale", n, <<s, al.horizontal>>,
               <<horizontal_rescale(nodes[n], s, al.horizontal)>>)

Margin(I) ==
    /\ Room(I, 1)
    /\ \E n \in Nodes, t \in I.margins, r \in I.margins, b \in I.margins,
          l \in I.margins :
        Derive("margin", n, <<t, r, b, l>>, <<margin(nodes[n], t, r, b, l)>>)

UniformMargin(I) ==
    /\ Room(I, 1)
    /\ \E n \in Nodes, t \in I.margins, r \in I.margins, b \in I.margins,
          l \in I.margins :
        Derive("uniform_margin", n, <<t, r, b, l>>,
               <<uniform_margin(nodes[n], t, r, b, l)>>)

EnforceAspectRatioDownscale(I) ==
    /\ Room(I, 1)
    /\ \E n \in Nodes, r \in I.ratios, al \in I.alignments :
        Derive("enforce_aspect_ratio_downscale", n, <<r, al>>,
               <<enforce_aspect_ratio_downscale(nodes[n], r, al)>>)

EnforceAspectRatioUpscale(I) ==
    /\ Room(I, 1)
    /\ \E n \in Nodes, r \in I.ratios, al \in I.alignments :
        Derive("enforce_aspect_ratio_upscale", n, <<r, al>>,
               <<enforce_aspect_ratio_upscale(nodes[n], r, al)>>)

\* split_weights, reached through one of the four public split operations.
SplitWeights(I, op, n, weights, vertical) ==
    /\ Room(I, Len(weights))
    /\ IF split_weights_panics(weights)
       THEN Panic(op, n, <<weights, vertical>>)
       ELSE Derive(op, n, <<weights, vertical>>,
                   split_weights(nodes[n], weights, vertical))

VerticalSplit(I) ==
    \E n \in Nodes, splits \in I.splits :
        SplitWeights(I, "vertical_split", n, equal_weights(splits), TRUE)

VerticalSplitWeights(I) ==
    \E n \in Nodes, weights \in I.weights :
        SplitWeights(I, "vertical_split_weights", n, weights, TRUE)

HorizontalSplit(I) ==
    \E n \in Nodes, splits \in I.splits :
        SplitWeights(I, "horizontal_split", n, equal_weights(splits), FALSE)

HorizontalSplitWeights(I) ==
    \E n \in Nodes, weights \in I.weights :
        SplitWeights(I, "horizontal_split_weights", n, weights, FALSE)

Animate(I) ==
    /\ Room(I, 1)
    /\ \E n \in Nodes, m \in I.matrices :
        Derive("animate", n, <<m>>, <<animate(nodes[n], m)>>)

Clone(I) ==
    /\ Room(I, 1)
    /\ \E n \in Nodes : Derive("clone", n, <<>>, <<clone(nodes[n])>>)

SetCursorHoveredWidget ==
    /\ ~panicked
    /\ \E n \in Nodes :
        /\ shared1' = StoreShared1Hover(shared1)
        /\ shared2' = StoreShared2Hover(shared2, nodes[n])
        /\ ret' = Call("set_cursor_hovered_widget", n, <<>>, <<>>)
        /\ UNCHANGED <<ui_state, nodes, parent, reserved, last_active, panicked, hover_calls>>

\* set_cursor_hovered_widget called by thread t while other threads call it
\* too.  Both stores are Ordering::Relaxed, which orders neither of them
\* before the other for another thread: they take effect in either order.
\* The first of the two takes effect.
HoverFirstStore ==
    /\ ~panicked
    /\ \E t \in Callers, n \in Nodes :
        /\ hover_calls[t] = None
        /\ \/ /\ shared1' = StoreShared1Hover(shared1)
              /\ hover_calls' = [hover_calls EXCEPT
                                   ![t] = Some([self |-> n, pending |-> "shared2"])]
              /\ UNCHANGED shared2
           \/ /\ shared2' = StoreShared2Hover(shared2, nodes[n])
              /\ hover_calls' = [hover_calls EXCEPT
                                   ![t] = Some([self |-> n, pending |-> "shared1"])]
              /\ UNCHANGED shared1
        /\ UNCHANGED <<ui_state, nodes, parent, reserved, last_active, ret, panicked>>

\* The other store takes effect and the call returns.
HoverSecondStore ==
    /\ ~panicked
    /\ \E t \in Callers :
        /\ hover_calls[t] # None
        /\ LET call == hover_calls[t][1]
           IN  /\ IF call.pending = "shared1"
                  THEN shared1' = StoreShared1Hover(shared1) /\ UNCHANGED shared2
                  ELSE shared2' = StoreShared2Hover(shared2, nodes[call.self])
                       /\ UNCHANGED shared1
               /\ ret' = Call("set_cursor_hovered_widget", call.self, <<>>, <<>>)
        /\ hover_calls' = [hover_calls EXCEPT ![t] = None]
        /\ UNCHANGED <<ui_state, nodes, parent, reserved, last_active, panicked>>

ReserveWidgetId ==
    /\ ~panicked
    /\ shared1.next_widget_id <= MaxIds
    /\ \E n \in Nodes :
        /\ shared1' = FetchAddNextWidgetId(shared1)
        /\ reserved' = Append(reserved, FetchAddResult(shared1))
        /\ ret' = Call("reserve_widget_id", n, <<>>, <<FetchAddResult(shared1)>>)
        /\ UNCHANGED <<ui_state, shared2, nodes, parent, last_active, panicked, hover_calls>>

WriteActiveWidget ==
    /\ ~panicked
    /\ \E n \in Nodes, id \in 1..MaxIds :
        /\ ui_state' = WriteActive(ui_state, id)
        /\ last_active' = Some(id)
        /\ ret' = Call("write_active_widget", n, <<id>>, <<>>)
        /\ UNCHANGED <<shared1, shared2, nodes, parent, reserved, panicked, hover_calls>>

ClearActiveWidget ==
    /\ ~panicked
    /\ \E n \in Nodes :
        /\ ui_state' = ClearActive(ui_state)
        /\ last_active' = None
        /\ ret' = Call("clear_active_widget", n, <<>>, <<>>)
        /\ UNCHANGED <<shared1, shared2, nodes, parent, reserved, panicked, hover_calls>>

\* Linear.calculate(now, start, duration), times in whole time units.
LinearCalculate ==
    /\ ~panicked
    /\ \E now \in 0..MaxTime, start \in 0..MaxTime, duration \in 0..MaxTime :
        /\ ret' = Call("Linear::calculate", 0, <<now, start, duration>>,
                       <<Linear_calculate(now, start, duration)>>)
        /\ UNCHANGED <<ui_state, shared1, shared2, nodes, parent, reserved,
                       last_active, panicked, hover_calls>>

\* The two hover queries read the node and change nothing.
IsCursorHovering ==
    /\ ~panicked
    /\ \E n \in Nodes :
        /\ ret' = Call("is_cursor_hovering", n, <<>>, <<is_cursor_hovering(nodes[n])>>)
        /\ UNCHANGED <<ui_state, shared1, shared2, nodes, parent, reserved,
                       last_active, panicked, hover_calls>>

CursorHoverCoordinates ==
    /\ ~panicked
    /\ \E n \in Nodes :
        /\ ret' = Call("cursor_hover_coordinates", n, <<>>,
                       cursor_hover_coordinates(nodes[n]))
        /\ UNCHANGED <<ui_state, shared1, shared2, nodes, parent, reserved,
                       last_active, panicked, hover_calls>>

(***************************************************************************)
(* The program: every operation, on every input.                           *)
(***************************************************************************)
Next ==
    \/ Draw
    \/ SharedDraw(AllInputs)
    \/ Rescale(AllInputs)
    \/ VerticalRescale(AllInputs)
    \/ HorizontalRescale(AllInputs)
    \/ Margin(AllInputs)
    \/ UniformMargin(AllInputs)
    \/ EnforceAspectRatioDownscale(AllInputs)
    \/ EnforceAspectRatioUpscale(AllInputs)
    \/ VerticalSplit(AllInputs)
    \/ VerticalSplitWeights(AllInputs)
    \/ HorizontalSplit(AllInputs)
    \/ HorizontalSplitWeights(AllInputs)
    \/ Animate(AllInputs)
    \/ Clone(AllInputs)
    \/ SetCursorHoveredWidget
    \/ ReserveWidgetId
    \/ WriteActiveWidget
    \/ ClearActiveWidget
    \/ IsCursorHovering
    \/ CursorHoverCoordinates
    \/ LinearCalculate
    \/ HoverFirstStore
    \/ HoverSecondStore

Spec == Init /\ [][Next]_vars

(***************************************************************************)
(* Slices of the program.  The session operations read and write only      *)
(* ui_state, shared1 and shared2; the composition operations only build    *)
(* nodes.  Each slice keeps the operations that write the state its        *)
(* properties read, on inputs small enough to explore every interleaving.  *)
(***************************************************************************)
\* The session protocol: every operation on the shared state, called through
\* roots and clones.
SessionNext ==
    \/ Draw
    \/ SharedDraw(AllInputs)
    \/ Clone(AllInputs)
    \/ SetCursorHoveredWidget
    \/ ReserveWidgetId
    \/ WriteActiveWidget
    \/ ClearActiveWidget

SessionSpec == Init /\ [][SessionNext]_vars

\* The tree of nodes: every composition operation, on one input each, and the
\* hover flag set through any node.
TreeInputs ==
    [max_nodes |-> MaxNodes,
     splits |-> 0..MaxSplits,
     roots |-> SquareRootInputs,
     percents |-> {Half},
     alignments |-> {top_left},
     margins |-> {Quarter},
     ratios |-> {One},
     weights |-> {<<>>, <<One>>, <<One, Two>>},
     matrices |-> {Translation_animate(<<One, Zero>>, Linear_calculate(2, 1, 2))}]

TreeNext ==
    \/ Draw
    \/ SharedDraw(TreeInputs)
    \/ Rescale(TreeInputs)
    \/ VerticalRescale(TreeInputs)
    \/ HorizontalRescale(TreeInputs)
    \/ Margin(TreeInputs)
    \/ UniformMargin(TreeInputs)
    \/ EnforceAspectRatioDownscale(TreeInputs)
    \/ EnforceAspectRatioUpscale(TreeInputs)
    \/ VerticalSplit(TreeInputs)
    \/ VerticalSplitWeights(TreeInputs)
    \/ HorizontalSplit(TreeInputs)
    \/ HorizontalSplitWeights(TreeInputs)
    \/ Animate(TreeInputs)
    \/ Clone(TreeInputs)
    \/ SetCursorHoveredWidget

TreeSpec == Init /\ [][TreeNext]_vars

\* The splits, on every weight sequence, of 2 x 1 roots and of rescaled nodes.
SplitInputs ==
    [max_nodes |-> MaxSplitNodes,
     splits |-> 0..MaxSplits,
     roots |-> {<<Two, One, Some(<<Zero, Zero>>), TRUE, FALSE>>},
     percents |-> {Half},
     alignments |-> {top_left},
     weights |-> WeightSeqs]

SplitNext ==
    \/ SharedDraw(SplitInputs)
    \/ Rescale(SplitInputs)
    \/ VerticalSplit(SplitInputs)
    \/ VerticalSplitWeights(SplitInputs)
    \/ HorizontalSplit(SplitInputs)
    \/ HorizontalSplitWeights(SplitInputs)

SplitSpec == Init /\ [][SplitNext]_vars

\* The layout of one surface: rescale, margins and aspect-ratio downscale, on
\* wide and tall roots and on every alignment.
LayoutInputs ==
    [max_nodes |-> MaxLayoutNodes,
     roots |-> RootInputs,
     percents |-> {Half},
     alignments |-> Alignment,
     margins |-> {Zero, Quarter},
     ratios |-> {Half, One, Two, Three}]

LayoutNext ==
    \/ SharedDraw(LayoutInputs)
    \/ Rescale(LayoutInputs)
    \/ Margin(LayoutInputs)
    \/ UniformMargin(LayoutInputs)
    \/ EnforceAspectRatioDownscale(LayoutInputs)

LayoutSpec == Init /\ [][LayoutNext]_vars

\* Hover queries on rescaled, inset and split surfaces, with percentages from
\* 0 to 1, for a cursor that is absent, at the root's centre, at the centre of
\* a surface aligned top left, and far outside the root.
HoverRootInputs ==
    {<<Two, One, c, FALSE, FALSE>> :
        c \in {None, Some(<<Zero, Zero>>), Some(<<<<-1, 2>>, Half>>),
               Some(<<<<100, 1>>, <<100, 1>>>>)}}

HoverInputs ==
    [max_nodes |-> MaxLayoutNodes,
     splits |-> 0..MaxSplits,
     roots |-> HoverRootInputs,
     percents |-> {Zero, Half},
     alignments |-> {center, top_left},
     margins |-> {Quarter}]

HoverNext ==
    \/ SharedDraw(HoverInputs)
    \/ Rescale(HoverInputs)
    \/ Margin(HoverInputs)
    \/ VerticalSplit(HoverInputs)
    \/ HorizontalSplit(HoverInputs)
    \/ IsCursorHovering
    \/ CursorHoverCoordinates

HoverSpec == Init /\ [][HoverNext]_vars

\* The interpolation alone, on every triple of times.
InterpolationNext == LinearCalculate

InterpolationSpec == Init /\ [][InterpolationNext]_vars

\* Concurrent callers of set_cursor_hovered_widget on the roots and the
\* rescaled nodes of a session, over successive sessions.
ConcurrentInputs ==
    [max_nodes |-> MaxNodes,
     roots |-> {<<One, One, None, FALSE, FALSE>>},
     percents |-> {Half},
     alignments |-> {center}]

ConcurrentNext ==
    \/ Draw
    \/ SharedDraw(ConcurrentInputs)
    \/ Rescale(ConcurrentInputs)
    \/ HoverFirstStore
    \/ HoverSecondStore

ConcurrentSpec == Init /\ [][ConcurrentNext]_vars

(***************************************************************************)
(* Vocabulary of the properties.                                           *)
(***************************************************************************)
\* The node itself, the node it was derived from, and so on up to its root.
RECURSIVE AncestorsOrSelfIn(_, _)
AncestorsOrSelfIn(par, n) ==
    IF par[n] = 0 THEN {n} ELSE {n} \cup AncestorsOrSelfIn(par, par[n])

AncestorsOrSelf(n) == AncestorsOrSelfIn(parent, n)

\* The root a node derives from.
RootOf(n) == CHOOSE a \in AncestorsOrSelf(n) : parent[a] = 0

\* m and n lie in different subtrees below a common ancestor.
InSiblingSubtrees(m, n) ==
    \E a \in AncestorsOrSelf(m), b \in AncestorsOrSelf(n) :
        /\ a # b
        /\ parent[a] # 0
        /\ parent[a] = parent[b]
        /\ a \notin AncestorsOrSelf(n)
        /\ b \notin AncestorsOrSelf(m)

CompositionOps ==
    {"rescale", "vertical_rescale", "horizontal_rescale", "margin", "uniform_margin",
     "enforce_aspect_ratio_downscale", "enforce_aspect_ratio_upscale",
     "vertical_split", "vertical_split_weights", "horizontal_split",
     "horizontal_split_weights", "animate", "clone"}

VerticalSplitOps == {"vertical_split", "vertical_split_weights"}
HorizontalSplitOps == {"horizontal_split", "horizontal_split_weights"}
SplitOps == VerticalSplitOps \cup HorizontalSplitOps

\* The last call was a split that returned chunks.
SplitReturned == ret.op \in SplitOps /\ ~panicked

\* The point (x, y) of a node's local space, in the root's space.
Corner(node, x, y) ==
    LET v == MatApply(node.matrix, <<x, y, One>>)
    IN  <<RDiv(v[1], v[3]), RDiv(v[2], v[3])>>

MinusOne == <<-1, 1>>
TopLeft(node) == Corner(node, MinusOne, One)
TopRight(node) == Corner(node, One, One)
BottomLeft(node) == Corner(node, MinusOne, MinusOne)
BottomRight(node) == Corner(node, One, MinusOne)

RECURSIVE RSum(_)
RSum(seq) == IF Len(seq) = 0 THEN Zero ELSE RAdd(seq[1], RSum(Tail(seq)))

(***************************************************************************)
(* C1. After set_cursor_hovered_widget() returns on a node,                *)
(* cursor_hovered_widget() is true on that node and on each of its         *)
(* ancestors, and stays true on every node for the rest of the session.    *)
(***************************************************************************)
C1_HoverReachesAncestors ==
    [][/\ ret'.op = "set_cursor_hovered_widget" =>
            \A a \in AncestorsOrSelfIn(parent', ret'.self) :
                cursor_hovered_widget(nodes[a])'
       /\ ret'.op # "draw" =>
            \A n \in Nodes :
                cursor_hovered_widget(nodes[n]) => cursor_hovered_widget(nodes[n])'
      ]_vars

\* The flag was set through a grandchild, and the root reports it.
C1_Witness ==
    /\ ret.op = "set_cursor_hovered_widget"
    /\ parent[ret.self] # 0
    /\ parent[parent[ret.self]] # 0
    /\ cursor_hovered_widget(nodes[RootOf(ret.self)])

(***************************************************************************)
(* C2, as claimed. A set_cursor_hovered_widget() call through a node       *)
(* leaves cursor_hovered_widget() false on the nodes of a sibling subtree. *)
(***************************************************************************)
C2_SiblingSubtreeUnaffected ==
    [][ret'.op = "set_cursor_hovered_widget" =>
            \A m \in Nodes :
                (InSiblingSubtrees(m, ret'.self) /\ ~cursor_hovered_widget(nodes[m]))
                    => ~cursor_hovered_widget(nodes[m])'
      ]_vars

(***************************************************************************)
(* C2, amended. The flag is scoped to the root, not to a subtree: a        *)
(* set_cursor_hovered_widget() call through a node makes                   *)
(* cursor_hovered_widget() true on every node derived from the same root,  *)
(* and a node's flag turns true only by a call through a node of its own   *)
(* root, so the nodes of a root none of whose nodes made the call still    *)
(* return false.                                                           *)
(***************************************************************************)
C2_HoverScopedToRoot ==
    [][/\ ret'.op = "set_cursor_hovered_widget" =>
            \A m \in Nodes :
                RootOf(m) = RootOf(ret'.self) => cursor_hovered_widget(nodes[m])'
       /\ ret'.op # "draw" =>
            \A m \in Nodes :
                (~cursor_hovered_widget(nodes[m]) /\ cursor_hovered_widget(nodes[m])')
                    => /\ ret'.op = "set_cursor_hovered_widget"
                       /\ RootOf(ret'.self) = RootOf(m)
      ]_vars

\* The call went through a node of one root; a node of another root still
\* returns false, and a sibling of the caller returns true.
C2_Witness ==
    /\ ret.op = "set_cursor_hovered_widget"
    /\ \E m \in Nodes : RootOf(m) # RootOf(ret.self) /\ ~cursor_hovered_widget(nodes[m])
    /\ \E m \in Nodes : m # ret.self /\ RootOf(m) = RootOf(ret.self)
                        /\ cursor_hovered_widget(nodes[m])

(***************************************************************************)
(* C3. The ids reserve_widget_id() returns within one session, through     *)
(* whatever nodes, are strictly increasing in call order (hence pairwise   *)
(* distinct).                                                              *)
(***************************************************************************)
C3_IdsStrictlyIncreasing ==
    /\ \A i, j \in DOMAIN reserved : i < j => reserved[i] < reserved[j]
    /\ ret.op = "reserve_widget_id" => ret.val = <<reserved[Len(reserved)]>>

\* Two ids were returned, the last one through a node other than the first root.
C3_Witness ==
    /\ Len(reserved) >= 2
    /\ ret.op = "reserve_widget_id"
    /\ ret.self # 1

(***************************************************************************)
(* C4. The session-wide hover flag and every Shared2 hover flag are false  *)
(* when created and, once true, stay true under every operation of the     *)
(* session; only draw(), which creates the next session, yields a false    *)
(* session-wide flag again.                                                *)
(***************************************************************************)
C4_HoverFlagsMonotone ==
    [][/\ ret'.op # "draw" =>
            /\ shared1.cursor_hovered_widget => shared1'.cursor_hovered_widget
            /\ \A i \in DOMAIN shared2 :
                /\ i \in DOMAIN shared2'
                /\ shared2[i].cursor_hovered_widget => shared2'[i].cursor_hovered_widget
       /\ ret'.op = "draw" => ~shared1'.cursor_hovered_widget
       /\ \A i \in DOMAIN shared2' :
            i \notin DOMAIN shared2 => ~shared2'[i].cursor_hovered_widget
      ]_vars

\* A root created after a widget was hovered: the session-wide flag is still
\* true, the new root's flag is false.
C4_Witness ==
    /\ ret.op = "SharedDrawContext::draw"
    /\ SharedDrawContext_cursor_hovered_widget
    /\ ~cursor_hovered_widget(nodes[ret.val[1]])

(***************************************************************************)
(* C5. get_active_widget() through any node returns what the most recent   *)
(* write_active_widget(id) (Some(id)) or clear_active_widget() (None) call *)
(* through any node asked for, and None when there was no such call.       *)
(***************************************************************************)
C5_ActiveWidgetIsLastWrite ==
    \A n \in Nodes : get_active_widget(nodes[n]) = last_active

\* An id written through one node is read through another.
C5_Witness ==
    /\ ret.op = "write_active_widget"
    /\ \E n \in Nodes :
        n # ret.self /\ get_active_widget(nodes[n]) = Some(ret.args[1])

(***************************************************************************)
(* C6. draw(ui_state) leaves the active widget of the caller's UiState     *)
(* unchanged, and the session it creates starts with next id 1 and a false *)
(* session-wide hover flag.                                                *)
(***************************************************************************)
C6_DrawKeepsActiveWidget ==
    [][ret'.op = "draw" =>
            /\ ui_state'.active_widget = ui_state.active_widget
            /\ shared1'.next_widget_id = 1
            /\ ~shared1'.cursor_hovered_widget
      ]_vars

\* A later session has just been created and the active widget is still set.
C6_Witness ==
    /\ ret.op = "draw"
    /\ shared1.id = 1
    /\ ui_state.active_widget # None
    /\ shared1.next_widget_id = 1

(***************************************************************************)
(* C7. A composition operation leaves every existing node as it was, and   *)
(* each node it returns has the cursor, cursor_was_pressed and             *)
(* cursor_was_released of the node it was called on and refers to the same *)
(* Shared1 and Shared2.                                                    *)
(***************************************************************************)
C7_CompositionCopiesSharedFields ==
    [][ret'.op \in CompositionOps =>
            /\ \A i \in Nodes : i \in DOMAIN nodes' /\ nodes'[i] = nodes[i]
            /\ \A k \in 1..Len(ret'.val) :
                LET c == nodes'[ret'.val[k]]
                    p == nodes'[ret'.self]
                IN  /\ c.cursor = p.cursor
                    /\ c.cursor_was_pressed = p.cursor_was_pressed
                    /\ c.cursor_was_released = p.cursor_was_released
                    /\ c.shared1 = p.shared1
                    /\ c.shared2 = p.shared2
      ]_vars

\* A split of a node with a cursor, pressed in this frame, returned two chunks
\* whose transforms differ from the parent's.
C7_Witness ==
    /\ ret.op = "vertical_split_weights"
    /\ Len(ret.val) = 2
    /\ nodes[ret.self].cursor # None
    /\ nodes[ret.self].cursor_was_pressed
    /\ \A k \in 1..2 : nodes[ret.val[k]].matrix # nodes[ret.self].matrix

(***************************************************************************)
(* C8. A split over an empty weight sequence (vertical_split(0),           *)
(* horizontal_split(0), *_split_weights of no weights) panics and returns  *)
(* nothing; a split over n > 0 weights does not panic and returns exactly  *)
(* n new nodes, the i-th of them being the chunk of the i-th weight.       *)
(***************************************************************************)
C8_EmptySplitPanics ==
    ret.op \in SplitOps =>
        LET weights == ret.args[1]
            vertical == ret.args[2]
            p == nodes[ret.self]
        IN  IF Len(weights) = 0
            THEN panicked /\ ret.val = <<>>
            ELSE /\ ~panicked
                 /\ Len(ret.val) = Len(weights)
                 /\ \A i \in 1..Len(weights) :
                      /\ ret.val[i] = Len(nodes) - Len(weights) + i
                      /\ parent[ret.val[i]] = ret.self
                      /\ IF vertical
                         THEN RMul(nodes[ret.val[i]].height, RSum(weights))
                              = RMul(p.height, weights[i])
                         ELSE RMul(nodes[ret.val[i]].width, RSum(weights))
                              = RMul(p.width, weights[i])

\* vertical_split(0) panicked.
C8_Witness ==
    /\ panicked
    /\ ret.op = "vertical_split"
    /\ ret.args[1] = <<>>
    /\ ret.val = <<>>

(***************************************************************************)
(* C9. The chunks of a split with positive weights tile the parent along   *)
(* the split axis, in order: the first chunk starts at the parent's top    *)
(* (vertical) or left (horizontal) edge, each chunk ends where the next    *)
(* one starts, the last chunk ends at the parent's bottom or right edge,   *)
(* every chunk has a positive extent in the direction of the walk and      *)
(* spans the parent on the other axis.                                     *)
(***************************************************************************)
C9_ChunksTileParent ==
    SplitReturned =>
        LET p == nodes[ret.self]
            n == Len(ret.val)
            c(i) == nodes[ret.val[i]]
        IN  IF ret.args[2]
            THEN /\ TopLeft(c(1)) = TopLeft(p) /\ TopRight(c(1)) = TopRight(p)
                 /\ \A i \in 1..(n - 1) :
                      /\ BottomLeft(c(i)) = TopLeft(c(i + 1))
                      /\ BottomRight(c(i)) = TopRight(c(i + 1))
                 /\ BottomLeft(c(n)) = BottomLeft(p)
                 /\ BottomRight(c(n)) = BottomRight(p)
                 /\ \A i \in 1..n : RLt(BottomLeft(c(i))[2], TopLeft(c(i))[2])
            ELSE /\ TopLeft(c(1)) = TopLeft(p) /\ BottomLeft(c(1)) = BottomLeft(p)
                 /\ \A i \in 1..(n - 1) :
                      /\ TopRight(c(i)) = TopLeft(c(i + 1))
                      /\ BottomRight(c(i)) = BottomLeft(c(i + 1))
                 /\ TopRight(c(n)) = TopRight(p)
                 /\ BottomRight(c(n)) = BottomRight(p)
                 /\ \A i \in 1..n : RLt(TopLeft(c(i))[1], TopRight(c(i))[1])

\* Unequal weights split a rescaled (not the root's) surface vertically.
C9_Witness ==
    /\ SplitReturned
    /\ ret.op = "vertical_split_weights"
    /\ ret.args[1] = <<Two, One>>
    /\ nodes[ret.self].matrix # identity
    /\ BottomLeft(nodes[ret.val[1]]) = TopLeft(nodes[ret.val[2]])

(***************************************************************************)
(* C10. In a split, chunk i's size along the split axis is                 *)
(* weight_i / sum(weights) of the parent's and its size on the other axis  *)
(* is the parent's; so the sizes along the axis sum to the parent's, and   *)
(* the sizes of two chunks are in the ratio of their weights.              *)
(***************************************************************************)
C10_ChunkSizeIsWeightShare ==
    SplitReturned =>
        LET p == nodes[ret.self]
            weights == ret.args[1]
            n == Len(ret.val)
            c(i) == nodes[ret.val[i]]
            along(node) == IF ret.args[2] THEN node.height ELSE node.width
            across(node) == IF ret.args[2] THEN node.width ELSE node.height
        IN  /\ \A i \in 1..n :
                /\ along(c(i)) = RMul(along(p), RDiv(weights[i], RSum(weights)))
                /\ across(c(i)) = across(p)
            /\ RSum([i \in 1..n |-> along(c(i))]) = along(p)
            /\ \A i, j \in 1..n :
                RMul(along(c(i)), weights[j]) = RMul(along(c(j)), weights[i])

\* Weights [1, 3]: the second chunk is three times the first.
C10_Witness ==
    /\ SplitReturned
    /\ ret.op = "horizontal_split_weights"
    /\ ret.args[1] = <<One, Three>>
    /\ nodes[ret.val[2]].width = RMul(Three, nodes[ret.val[1]].width)
    /\ nodes[ret.val[2]].height = nodes[ret.self].height

(***************************************************************************)
(* C11. enforce_aspect_ratio_downscale(r, alignment) on a node of positive *)
(* width and height, for a positive r, returns a node whose width/height   *)
(* is r and whose width and height do not exceed the parent's.  A parent   *)
(* wider than r is shrunk horizontally, placed by the horizontal           *)
(* alignment, its height and vertical extent kept; a parent taller than r  *)
(* is shrunk vertically, placed by the vertical alignment, its width and   *)
(* horizontal extent kept; a parent of ratio r is returned as it is.       *)
(***************************************************************************)
C11_DownscaleFitsInside ==
    ret.op = "enforce_aspect_ratio_downscale" =>
        LET p == nodes[ret.self]
            c == nodes[ret.val[1]]
            r == ret.args[1]
            al == ret.args[2]
            cur == RDiv(p.width, p.height)
            SameLeft == TopLeft(c) = TopLeft(p) /\ BottomLeft(c) = BottomLeft(p)
            SameRight == TopRight(c) = TopRight(p) /\ BottomRight(c) = BottomRight(p)
            SameTop == TopLeft(c) = TopLeft(p) /\ TopRight(c) = TopRight(p)
            SameBottom == BottomLeft(c) = BottomLeft(p)
                          /\ BottomRight(c) = BottomRight(p)
            SameCenter == Corner(c, Zero, Zero) = Corner(p, Zero, Zero)
            Span(node, k) == RSub(TopRight(node)[k], BottomLeft(node)[k])
        IN  /\ RDiv(c.width, c.height) = r
            /\ RLe(c.width, p.width) /\ RLe(c.height, p.height)
            /\ RLt(r, cur) =>
                /\ c.height = p.height /\ RLt(c.width, p.width)
                /\ Span(c, 2) = Span(p, 2)
                /\ RMul(Span(c, 1), cur) = RMul(Span(p, 1), r)
                /\ al.horizontal = "Left" => SameLeft /\ ~SameRight
                /\ al.horizontal = "Right" => SameRight /\ ~SameLeft
                /\ al.horizontal = "Center" => SameCenter
            /\ RLt(cur, r) =>
                /\ c.width = p.width /\ RLt(c.height, p.height)
                /\ Span(c, 1) = Span(p, 1)
                /\ RMul(Span(c, 2), r) = RMul(Span(p, 2), cur)
                /\ al.vertical = "Top" => SameTop /\ ~SameBottom
                /\ al.vertical = "Bottom" => SameBottom /\ ~SameTop
                /\ al.vertical = "Center" => SameCenter
            /\ cur = r =>
                /\ c.width = p.width /\ c.height = p.height
                /\ SameLeft /\ SameRight

\* A 2 x 1 surface downscaled to ratio 1/2, kept at its right edge.
C11_Witness ==
    /\ ret.op = "enforce_aspect_ratio_downscale"
    /\ nodes[ret.self].width = Two /\ nodes[ret.self].height = One
    /\ ret.args[1] = Half
    /\ ret.args[2].horizontal = "Right"
    /\ nodes[ret.val[1]].width = Half
    /\ TopRight(nodes[ret.val[1]]) = TopRight(nodes[ret.self])

\* The distances between the edges of a node c and those of the node p it was
\* cut from, in the root's space: left, right, top, bottom; and p's extents.
LeftInset(c, p) == RSub(TopLeft(c)[1], TopLeft(p)[1])
RightInset(c, p) == RSub(TopRight(p)[1], TopRight(c)[1])
TopInset(c, p) == RSub(TopLeft(p)[2], TopLeft(c)[2])
BottomInset(c, p) == RSub(BottomLeft(c)[2], BottomLeft(p)[2])
SpanX(p) == RSub(TopRight(p)[1], TopLeft(p)[1])
SpanY(p) == RSub(TopLeft(p)[2], BottomLeft(p)[2])

(***************************************************************************)
(* C12. margin(top, right, bottom, left) insets the node on its four       *)
(* sides, each by its percentage of the full extent of the node the margin *)
(* is taken from: left and right by left and right times its width, top    *)
(* and bottom by top and bottom times its height.                          *)
(***************************************************************************)
C12_MarginInsetsOfFullSurface ==
    ret.op = "margin" =>
        LET p == nodes[ret.self]
            c == nodes[ret.val[1]]
            top == ret.args[1]
            right == ret.args[2]
            bottom == ret.args[3]
            left == ret.args[4]
        IN  /\ LeftInset(c, p) = RMul(left, SpanX(p))
            /\ RightInset(c, p) = RMul(right, SpanX(p))
            /\ TopInset(c, p) = RMul(top, SpanY(p))
            /\ BottomInset(c, p) = RMul(bottom, SpanY(p))
            /\ c.width = RMul(p.width, RSub(RSub(One, left), right))
            /\ c.height = RMul(p.height, RSub(RSub(One, top), bottom))

\* width-per-height and height-per-width of a node, clamped to >= 1; the
\* smaller of its width and height.
ClampedWph(p) ==
    IF RLt(RDiv(p.width, p.height), One) THEN One ELSE RDiv(p.width, p.height)
ClampedHpw(p) ==
    IF RLt(RDiv(p.height, p.width), One) THEN One ELSE RDiv(p.height, p.width)
SmallerSide(p) == IF RLt(p.width, p.height) THEN p.width ELSE p.height

C14_HoverCoordinatesOrNone ==
    /\ ret.op = "cursor_hover_coordinates" =>
        LET self == nodes[ret.self]
            cursor == self.cursor[1]
            Outside ==
                \/ RLt(cursor[1], TopLeft(self)[1]) \/ RLt(TopRight(self)[1], cursor[1])
                \/ RLt(cursor[2], BottomLeft(self)[2]) \/ RLt(TopLeft(self)[2], cursor[2])
        IN  /\ ~panicked
            /\ self.cursor = None => ret.val = None
            /\ Det(self.matrix) = Zero => ret.val = None
            /\ (self.cursor # None /\ Det(self.matrix) # Zero) =>
                 IF Outside
                 THEN ret.val = None
                 ELSE /\ ret.val # None
                      /\ RLe(MinusOne, ret.val[1][1]) /\ RLe(ret.val[1][1], One)
                      /\ RLe(MinusOne, ret.val[1][2]) /\ RLe(ret.val[1][2], One)
                      /\ Corner(self, ret.val[1][1], ret.val[1][2]) = cursor
    /\ ret.op = "is_cursor_hovering" =>
        /\ ~panicked
        /\ nodes[ret.self].cursor = None => ret.val = <<FALSE>>

\* The cursor at the root's centre, seen from a surface aligned top left, of
\* half the root's size: it is at that surface's bottom right corner.
C14_Witness ==
    /\ ret.op = "cursor_hover_coordinates"
    /\ nodes[ret.self].matrix # identity
    /\ nodes[ret.self].cursor = Some(<<Zero, Zero>>)
    /\ ret.val = Some(<<One, MinusOne>>)

(***************************************************************************)
(* C15. On every node derived from a root by rescale, margin and split     *)
(* operations with percentages in [0, 1], is_cursor_hovering() returns     *)
(* true when the cursor is at the node's transformed centre and false when *)
(* the cursor is outside the root viewport by more than the viewport's     *)
(* width.                                                                  *)
(***************************************************************************)
C15_HoverAtCentreNotFarOutside ==
    ret.op = "is_cursor_hovering" /\ nodes[ret.self].cursor # None =>
        LET self == nodes[ret.self]
            cursor == self.cursor[1]
            FarOutside == \/ RLe(Three, cursor[1]) \/ RLe(cursor[1], RNeg(Three))
                          \/ RLe(Three, cursor[2]) \/ RLe(cursor[2], RNeg(Three))
        IN  /\ cursor = Corner(self, Zero, Zero) => ret.val = <<TRUE>>
            /\ FarOutside => ret.val = <<FALSE>>

(***************************************************************************)
(* C16. Linear.calculate(now, start, duration) returns a progress in       *)
(* [0, 1]: 0 when now <= start, for any duration; elapsed / duration when  *)
(* start < now < start + duration; 1 when now is after start and           *)
(* now >= start + duration.                                                *)
(***************************************************************************)
C16_LinearProgressInUnitInterval ==
    ret.op = "Linear::calculate" =>
        LET now == ret.args[1]
            start == ret.args[2]
            duration == ret.args[3]
            progress == ret.val[1]
        IN  /\ progress # NaN
            /\ progress # NaN => RLe(Zero, progress) /\ RLe(progress, One)
            /\ now <= start => progress = Zero
            /\ (start < now /\ now < start + duration) =>
                 progress = Rat(now - start, duration)
            /\ (start < now /\ now >= start + duration) => progress = One

====
